---- MODULE Spec2Model ----
(***************************************************************************)
(* Request/response logger of johnweldon/middleware.go: the shared        *)
(* coreLogger (logRequest, logResponse), its server adapter               *)
(* (RequestResponseLogger.Handler, responseLogger, LevelHandler) and its  *)
(* client adapter (RoundTripLogger.RoundTrip), as a state machine.        *)
(***************************************************************************)
EXTENDS Integers, Sequences, FiniteSets, TLC

\* Longest request / response body of the model; byte i of a body is i.
MaxBodyLen == 2

(***************************************************************************)
(* Detail levels and their names                                           *)
(***************************************************************************)
NoneLevel == 0
MinimalLevel == 1
NormalLevel == 2
VerboseLevel == 3
DebugLevel == 4

DetailLevels == {NoneLevel, MinimalLevel, NormalLevel, VerboseLevel, DebugLevel}

details ==
  [l \in DetailLevels |->
     CASE l = NoneLevel -> "none"
       [] l = MinimalLevel -> "minimal"
       [] l = NormalLevel -> "normal"
       [] l = VerboseLevel -> "verbose"
       [] l = DebugLevel -> "debug"]

LevelNames == {"none", "minimal", "normal", "verbose", "debug"}

levels ==
  [n \in LevelNames |->
     CASE n = "none" -> NoneLevel
       [] n = "minimal" -> MinimalLevel
       [] n = "normal" -> NormalLevel
       [] n = "verbose" -> VerboseLevel
       [] n = "debug" -> DebugLevel]

LevelText(level) ==
  IF level \in DOMAIN details THEN details[level] ELSE ""

(***************************************************************************)
(* Headers, bodies                                                         *)
(***************************************************************************)
Absent == "<absent>"
RedactedValue == "[redacted]"

HeaderNames == {"Authorization", "Cookie", "Accept", "Content-Type"}

\* An http.Header: every name of the model mapped to its value, or Absent.
EmptyHeader == [k \in HeaderNames |-> Absent]

\* The lines a header dump prints: one (name, value) pair per present header.
HeaderLines(h) == {<<k, h[k]>> : k \in {n \in DOMAIN h : h[n] # Absent}}

Payload(n) == [i \in 1..n |-> i]

Bodies == {Payload(0), Payload(MaxBodyLen)}

\* An io.ReadCloser: the bytes behind it, how many were consumed, whether it
\* is the nil body, and whether its Read / Close report an error.
NilBody == [nil |-> TRUE, data |-> <<>>, pos |-> 0, readErr |-> FALSE, closeErr |-> FALSE]

NewReader(b) == [nil |-> FALSE, data |-> b, pos |-> 0, readErr |-> FALSE, closeErr |-> FALSE]

Remaining(s) == SubSeq(s.data, s.pos + 1, Len(s.data))

\* ioutil.ReadAll: everything left of the stream, which is then at its end;
\* a failing stream yields an error and no data.
ReadAll(s) ==
  IF s.readErr
    THEN [data |-> <<>>, err |-> TRUE, s |-> s]
    ELSE [data |-> Remaining(s), err |-> FALSE, s |-> [s EXCEPT !.pos = Len(s.data)]]

(***************************************************************************)
(* Templates: a definition is the sequence of its directives               *)
(***************************************************************************)
minimalRequestTemplateDef == <<"line">>
minimalResponseTemplateDef == <<"line">>
normalRequestTemplateDef == minimalRequestTemplateDef \o <<"headers">>
normalResponseTemplateDef == minimalResponseTemplateDef \o <<"headers">>
verboseRequestTemplateDef == minimalRequestTemplateDef \o <<"dump">>
verboseResponseTemplateDef == minimalResponseTemplateDef \o <<"headers", "bodyIfStatusBad">>
debugResponseTemplateDef == minimalResponseTemplateDef \o <<"headers", "body">>

Directives(def) == {def[i] : i \in DOMAIN def}

\* The nil *template.Template.
NilTemplate == [name |-> "", level |-> NoneLevel, def |-> <<>>]

\* A compiled template keeps the level its helper functions close over.
parseTemplate(level, def) == [name |-> details[level], level |-> level, def |-> def]

requestLevelTemplatesWithoutNone ==
  [l \in DetailLevels \ {NoneLevel} |->
     CASE l = MinimalLevel -> parseTemplate(MinimalLevel, minimalRequestTemplateDef)
       [] l = NormalLevel -> parseTemplate(NormalLevel, normalRequestTemplateDef)
       [] l = VerboseLevel -> parseTemplate(VerboseLevel, verboseRequestTemplateDef)
       [] l = DebugLevel -> parseTemplate(DebugLevel, verboseRequestTemplateDef)]

requestLevelTemplates ==
  [l \in DetailLevels |->
     CASE l = NoneLevel -> NilTemplate
       [] l = MinimalLevel -> parseTemplate(MinimalLevel, minimalRequestTemplateDef)
       [] l = NormalLevel -> parseTemplate(NormalLevel, normalRequestTemplateDef)
       [] l = VerboseLevel -> parseTemplate(VerboseLevel, verboseRequestTemplateDef)
       [] l = DebugLevel -> parseTemplate(DebugLevel, verboseRequestTemplateDef)]

responseLevelTemplates ==
  [l \in DetailLevels |->
     CASE l = NoneLevel -> NilTemplate
       [] l = MinimalLevel -> parseTemplate(MinimalLevel, minimalResponseTemplateDef)
       [] l = NormalLevel -> parseTemplate(NormalLevel, normalResponseTemplateDef)
       [] l = VerboseLevel -> parseTemplate(VerboseLevel, verboseResponseTemplateDef)
       [] l = DebugLevel -> parseTemplate(DebugLevel, debugResponseTemplateDef)]

RedactedHeaders == {"Authorization", "Cookie"}

redactHeadersAuthorizationOnly(level) ==
  IF level = DebugLevel THEN {} ELSE {"Authorization"}

redactHeaders(level) ==
  IF level = DebugLevel THEN {} ELSE RedactedHeaders

\* redactedHeaders clones h into orig, then overwrites the redacted names in h
\* itself and returns h as redacted: the map the caller passed in IS redacted.
redactedHeaders(level, h) ==
  [orig |-> h,
   redacted |-> [k \in DOMAIN h |->
                   IF k \in redactHeaders(level) /\ h[k] # Absent
                     THEN RedactedValue ELSE h[k]]]

\* The "headers" helper: text is what is printed, h the caller's map afterwards.
headers(level, h) ==
  LET red == redactedHeaders(level, h).redacted
  IN  [text |-> HeaderLines(red), h |-> red]

\* httputil.DumpRequest(r, true): prints the headers and the whole body, and
\* leaves a fresh copy of the body in r.
DumpRequest(r) ==
  IF r.Body.nil
    THEN [err |-> FALSE, hdrs |-> HeaderLines(r.Header), body |-> <<>>, r |-> r]
    ELSE LET rd == ReadAll(r.Body)
         IN  IF rd.err
               THEN [err |-> TRUE, hdrs |-> {}, body |-> <<>>, r |-> r]
               ELSE [err |-> FALSE, hdrs |-> HeaderLines(r.Header), body |-> rd.data,
                     r |-> [r EXCEPT !.Body = NewReader(rd.data)]]

\* The "dump" helper: r.Header is the redacted map during the dump and the
\* clone of the original afterwards.
dump(level, r) ==
  LET p == redactedHeaders(level, r.Header)
      d == DumpRequest([r EXCEPT !.Header = p.redacted])
  IN  [err |-> d.err, hdrs |-> d.hdrs, body |-> d.body,
       r |-> [d.r EXCEPT !.Header = p.orig]]

statusBadServerErrors(code) == 500 <= code

statusBad(code) == 400 <= code

\* t.Execute on the request data: the message written, and the request as the
\* helpers leave it.
ExecuteRequest(t, r) ==
  LET useH == "headers" \in Directives(t.def)
      useD == "dump" \in Directives(t.def)
      hres == headers(t.level, r.Header)
      r1 == IF useH THEN [r EXCEPT !.Header = hres.h] ELSE r
      dres == dump(t.level, r1)
      r2 == IF useD THEN dres.r ELSE r1
  IN  [msg |-> [dir |-> "request", tmpl |-> t.name, code |-> 0,
                hasHdrs |-> useH \/ (useD /\ ~dres.err),
                hdrs |-> IF useD THEN dres.hdrs ELSE IF useH THEN hres.text ELSE {},
                hasBody |-> useD /\ ~dres.err,
                body |-> IF useD THEN dres.body ELSE <<>>],
       r |-> r2]

\* t.Execute on the response data (response, body string).
ExecuteResponse(t, resp, body) ==
  LET useH == "headers" \in Directives(t.def)
      useB == \/ "body" \in Directives(t.def)
              \/ "bodyIfStatusBad" \in Directives(t.def) /\ statusBad(resp.StatusCode)
      hres == headers(t.level, resp.Header)
  IN  [msg |-> [dir |-> "response", tmpl |-> t.name, code |-> resp.StatusCode,
                hasHdrs |-> useH,
                hdrs |-> IF useH THEN hres.text ELSE {},
                hasBody |-> useB,
                body |-> IF useB THEN body ELSE <<>>],
       resp |-> IF useH THEN [resp EXCEPT !.Header = hres.h] ELSE resp]

(***************************************************************************)
(* coreLogger                                                              *)
(***************************************************************************)
\* The nil io.Writer, and the process's standard output.
NilWriter == "<nil>"
Stdout == "os.Stdout"

\* The nil *log.Logger, and log.New(out, prefix, log.LstdFlags).
NilLogger == [set |-> FALSE, out |-> NilWriter, prefix |-> ""]

NewLog(o, prefix) == [set |-> TRUE, out |-> o, prefix |-> prefix]

\* initialize: first the diagnostic logger, over l.Writer as it is at that
\* point, then the output sink.
initialize(wr, lg) ==
  [Log |-> IF lg = NilLogger THEN NewLog(wr, " [request/response logger] ") ELSE lg,
   Writer |-> IF wr = NilWriter THEN Stdout ELSE wr]

\* l.Log.Printf of the notes: a logger over the nil io.Writer dereferences it.
Printf(lg, notes) == [panic |-> notes # <<>> /\ lg.out = NilWriter]

logRequestRendersTwice(level, r, sinkFails) ==
  LET t == requestLevelTemplates[level]
      quiet == [r |-> r, msgs |-> <<>>, notes |-> <<>>]
  IN  IF level = NoneLevel THEN quiet
      ELSE IF level \notin DOMAIN requestLevelTemplates
        THEN [quiet EXCEPT !.notes = <<"Error missing request template">>]
      ELSE IF t = NilTemplate THEN quiet
      ELSE LET rd == ReadAll(r.Body) IN
        IF ~r.Body.nil /\ rd.err
          THEN [r |-> [r EXCEPT !.Body = rd.s], msgs |-> <<>>,
                notes |-> <<"Error reading body">>]
        ELSE IF ~r.Body.nil /\ r.Body.closeErr
          THEN [r |-> [r EXCEPT !.Body = rd.s], msgs |-> <<>>,
                notes |-> <<"Error closing body">>]
        ELSE LET r1 == IF r.Body.nil THEN r ELSE [r EXCEPT !.Body = NewReader(rd.data)]
                 ex == ExecuteRequest(t, r1)
             IN  [r |-> ex.r,
                  msgs |-> IF sinkFails THEN <<>> ELSE <<ex.msg, ex.msg>>,
                  notes |-> IF sinkFails THEN <<"Error executing template">> ELSE <<>>]

\* logRequest at the level read, on request r; sinkFails says that executing
\* the template reports an error.  Result: the request handed on, the message
\* written to the sink (if any) and the notes printed on the diagnostic logger.
logRequest(level, r, sinkFails) ==
  LET t == requestLevelTemplates[level]
      quiet == [r |-> r, msgs |-> <<>>, notes |-> <<>>]
  IN  IF level = NoneLevel THEN quiet
      ELSE IF level \notin DOMAIN requestLevelTemplates
        THEN [quiet EXCEPT !.notes = <<"Error missing request template">>]
      ELSE IF t = NilTemplate THEN quiet
      ELSE LET rd == ReadAll(r.Body) IN
        IF ~r.Body.nil /\ rd.err
          THEN [r |-> [r EXCEPT !.Body = rd.s], msgs |-> <<>>,
                notes |-> <<"Error reading body">>]
        ELSE IF ~r.Body.nil /\ r.Body.closeErr
          THEN [r |-> [r EXCEPT !.Body = rd.s], msgs |-> <<>>,
                notes |-> <<"Error closing body">>]
        ELSE LET r1 == IF r.Body.nil THEN r ELSE [r EXCEPT !.Body = NewReader(rd.data)]
                 ex == ExecuteRequest(t, r1)
             IN  [r |-> ex.r,
                  msgs |-> IF sinkFails THEN <<>> ELSE <<ex.msg>>,
                  notes |-> IF sinkFails THEN <<"Error executing template">> ELSE <<>>]

\* logResponse at the level read, on response resp.
logResponse(level, resp, sinkFails) ==
  LET t == responseLevelTemplates[level]
      quiet == [resp |-> resp, msgs |-> <<>>, notes |-> <<>>]
  IN  IF level \notin DOMAIN responseLevelTemplates
        THEN [quiet EXCEPT !.notes = <<"Error missing response template">>]
      ELSE IF t = NilTemplate THEN quiet
      ELSE LET rd == ReadAll(resp.Body) IN
        IF rd.err
          THEN [resp |-> [resp EXCEPT !.Body = rd.s], msgs |-> <<>>,
                notes |-> <<"Error reading body">>]
        ELSE IF resp.Body.closeErr
          THEN [resp |-> [resp EXCEPT !.Body = rd.s], msgs |-> <<>>,
                notes |-> <<"Error closing body">>]
        ELSE LET ex == ExecuteResponse(t, [resp EXCEPT !.Body = rd.s], rd.data)
             IN  [resp |-> [ex.resp EXCEPT !.Body = NewReader(rd.data)],
                  msgs |-> IF sinkFails THEN <<>> ELSE <<ex.msg>>,
                  notes |-> IF sinkFails THEN <<"Error executing template">> ELSE <<>>]

(***************************************************************************)
(* Content-type matching (helpers.go)                                      *)
(***************************************************************************)
\* A Content-Type value is the sequence of its comma-separated parts; a part
\* is a media type as written and the shape of its parameters.  The empty
\* sequence is the absent (or empty) header.
ToLower(s) ==
  CASE s = "Application/JSON" -> "application/json"
    [] s = "DEBUG" -> "debug"
    [] s = "Normal" -> "normal"
    [] OTHER -> s

\* mime.ParseMediaType: the lowercased media type, or an error for an empty
\* type or malformed parameters.
ParseMediaType(part) ==
  [mt |-> ToLower(part.mt), err |-> part.mt = "" \/ part.params = "invalid"]

matchAny(t, options) == \E opt \in options : opt = t

hasContentTypeFirstPartOnly(ct, mimetypes) ==
  IF Len(ct) = 0
    THEN matchAny("application/octet-stream", mimetypes)
    ELSE /\ ~ParseMediaType(ct[1]).err
         /\ matchAny(ParseMediaType(ct[1]).mt, mimetypes)

hasContentType(ct, mimetypes) ==
  IF Len(ct) = 0
    THEN matchAny("application/octet-stream", mimetypes)
    ELSE \E i \in DOMAIN ct :
           /\ ~ParseMediaType(ct[i]).err
           /\ matchAny(ParseMediaType(ct[i]).mt, mimetypes)

(***************************************************************************)
(* Level control surface                                                   *)
(***************************************************************************)
UsageHint == "expect JSON body like: {\"level\":\"none|minimal|normal|verbose|debug\"}"

NoField == "<no level field>"

\* What a handler of the control surface wrote: the status (200 when it wrote
\* none), the Allow, Accept and Content-Type headers, the level the JSON
\* payload names and the plain-text message.
Reply(status, text) ==
  [status |-> status, allow |-> "", accept |-> "", ctype |-> "", level |-> "",
   text |-> text]

NoReply == Reply(0, "")

\* A decode into a zero-valued req: a payload without the field leaves "".
DecodeZeroValue(prefilled, payload) ==
  IF payload.kind # "object"
    THEN [err |-> TRUE, Level |-> ""]
    ELSE [err |-> FALSE,
          Level |-> IF payload.level = NoField THEN "" ELSE payload.level]

\* json.Decoder.Decode into req, whose Level is pre-filled: an error, or the
\* Level the payload leaves in req.
Decode(prefilled, payload) ==
  IF payload.kind # "object"
    THEN [err |-> TRUE, Level |-> prefilled]
    ELSE [err |-> FALSE,
          Level |-> IF payload.level = NoField THEN prefilled ELSE payload.level]

handleGetLevelAnyMethod(level, method) ==
  [Level |-> level,
   w |-> [Reply(200, "") EXCEPT
            !.ctype = "application/json", !.level = LevelText(level)]]

handleGetLevel(level, method) ==
  IF method # "GET"
    THEN [Level |-> level,
          w |-> [Reply(405, "Method Not Allowed") EXCEPT !.allow = "GET"]]
    ELSE [Level |-> level,
          w |-> [Reply(200, "") EXCEPT
                   !.ctype = "application/json", !.level = LevelText(level)]]

TextLevelExact(name) ==
  IF name \in DOMAIN levels THEN levels[name] ELSE NoneLevel

\* TextLevel: the level a name in any letter case stands for, none otherwise.
TextLevel(name) ==
  IF ToLower(name) \in DOMAIN levels THEN levels[ToLower(name)] ELSE NoneLevel

handleLevelChangeAlwaysAccepts(level, method, ct, payload) ==
  LET req == Decode(LevelText(level), payload)
  IN  IF method # "PUT"
        THEN [Level |-> level, w |-> [Reply(200, "") EXCEPT !.allow = "PUT"]]
      ELSE IF ~hasContentType(ct, {"application/json"})
        THEN [Level |-> level,
              w |-> [Reply(415, "Unsupported Media Type")
                       EXCEPT !.accept = "application/json"]]
      ELSE IF req.err \/ req.Level \notin DOMAIN levels
        THEN [Level |-> level, w |-> Reply(422, UsageHint)]
      ELSE [Level |-> levels[req.Level], w |-> Reply(202, "")]

handleLevelChangeByTextLevel(level, method, ct, payload) ==
  LET req == Decode(LevelText(level), payload)
  IN  IF method # "PUT"
        THEN [Level |-> level, w |-> [Reply(200, "") EXCEPT !.allow = "PUT"]]
      ELSE IF ~hasContentType(ct, {"application/json"})
        THEN [Level |-> level,
              w |-> [Reply(415, "Unsupported Media Type")
                       EXCEPT !.accept = "application/json"]]
      ELSE IF req.err
        THEN [Level |-> level, w |-> Reply(422, UsageHint)]
      ELSE IF TextLevel(req.Level) = level
        THEN [Level |-> level, w |-> Reply(208, "")]
      ELSE [Level |-> TextLevel(req.Level), w |-> Reply(202, "")]

handleLevelChangeKeepsLevel(level, method, ct, payload) ==
  LET req == Decode(LevelText(level), payload)
  IN  IF method # "PUT"
        THEN [Level |-> level, w |-> [Reply(200, "") EXCEPT !.allow = "PUT"]]
      ELSE IF ~hasContentType(ct, {"application/json"})
        THEN [Level |-> level,
              w |-> [Reply(415, "Unsupported Media Type")
                       EXCEPT !.accept = "application/json"]]
      ELSE IF req.err \/ req.Level \notin DOMAIN levels
        THEN [Level |-> level, w |-> Reply(422, UsageHint)]
      ELSE IF levels[req.Level] = level
        THEN [Level |-> level, w |-> Reply(208, "")]
      ELSE [Level |-> level, w |-> Reply(202, "")]

\* A set-level handler that never looks at the method.
handleLevelChangeAnyMethod(level, method, ct, payload) ==
  LET req == Decode(LevelText(level), payload)
  IN  IF ~hasContentType(ct, {"application/json"})
        THEN [Level |-> level,
              w |-> [Reply(415, "Unsupported Media Type")
                       EXCEPT !.accept = "application/json"]]
      ELSE IF req.err \/ req.Level \notin DOMAIN levels
        THEN [Level |-> level, w |-> Reply(422, UsageHint)]
      ELSE IF levels[req.Level] = level
        THEN [Level |-> level, w |-> Reply(208, "")]
      ELSE [Level |-> levels[req.Level], w |-> Reply(202, "")]

handleLevelChange(level, method, ct, payload) ==
  LET req == Decode(LevelText(level), payload)
  IN  IF method # "PUT"
        THEN [Level |-> level, w |-> [Reply(200, "") EXCEPT !.allow = "PUT"]]
      ELSE IF ~hasContentType(ct, {"application/json"})
        THEN [Level |-> level,
              w |-> [Reply(415, "Unsupported Media Type")
                       EXCEPT !.accept = "application/json"]]
      ELSE IF req.err
        THEN [Level |-> level, w |-> Reply(422, UsageHint)]
      ELSE IF req.Level \notin DOMAIN levels
        THEN [Level |-> level, w |-> Reply(422, UsageHint)]
      ELSE IF levels[req.Level] = level
        THEN [Level |-> level, w |-> Reply(208, "")]
      ELSE IF levels[req.Level] \in DetailLevels
        THEN [Level |-> levels[req.Level], w |-> Reply(202, "")]
      ELSE [Level |-> level, w |-> Reply(422, UsageHint)]

(***************************************************************************)
(* Inputs                                                                  *)
(***************************************************************************)
Methods == {"GET", "PUT", "POST"}

Routes == {"/", "/set"}

Part(mt, params) == [mt |-> mt, params |-> params]

ContentTypes ==
  {<<>>,
   <<Part("application/json", "none")>>,
   <<Part("application/json", "valid")>>,
   <<Part("Application/JSON", "none")>>,
   <<Part("text/plain", "none"), Part("application/json", "valid")>>,
   <<Part("application/json", "invalid")>>,
   <<Part("text/plain", "none")>>,
   <<Part("application/octet-stream", "none")>>,
   <<Part("", "none"), Part("text/plain", "valid")>>}

LevelStrings == LevelNames \cup {"DEBUG", "Normal", "trace", ""}

Payloads ==
  {[kind |-> "malformed", level |-> NoField], [kind |-> "wrongtype", level |-> NoField]}
    \cup {[kind |-> "object", level |-> s] : s \in LevelStrings \cup {NoField}}

ControlRequest(route, method, ct, payload) ==
  [route |-> route, method |-> method, ct |-> ct, payload |-> payload]

JSON == <<Part("application/json", "none")>>

\* The control requests: every method on "/"; on "/set" the methods other than
\* PUT, PUT with every content type, and PUT with a JSON content type and
\* every payload.
ControlRequests ==
  {ControlRequest("/", m, <<>>, [kind |-> "malformed", level |-> NoField]) : m \in Methods}
    \cup {ControlRequest("/set", m, ct, [kind |-> "object", level |-> "debug"]) :
            m \in Methods \ {"PUT"}, ct \in ContentTypes}
    \cup {ControlRequest("/set", m, JSON, p) : m \in Methods \ {"PUT"}, p \in Payloads}
    \cup {ControlRequest("/set", "PUT", ct, [kind |-> "object", level |-> s]) :
            ct \in ContentTypes, s \in {"debug", "trace"}}
    \cup {ControlRequest("/set", "PUT", JSON, p) : p \in Payloads}

\* The control requests that can change the level: the ones served while an
\* exchange is in flight.
LevelRequests ==
  {ControlRequest("/set", "PUT", JSON, [kind |-> "object", level |-> s]) : s \in LevelNames}

NotAsked ==
  [q |-> ControlRequest("", "", <<>>, [kind |-> "malformed", level |-> NoField]),
   level |-> NoneLevel]

WithHeaders(h, pairs) ==
  [k \in HeaderNames |-> IF \E q \in pairs : q[1] = k
                           THEN (CHOOSE q \in pairs : q[1] = k)[2] ELSE h[k]]

RequestHeaders ==
  {WithHeaders(EmptyHeader, {<<"Accept", "*/*">>}),
   WithHeaders(EmptyHeader, {<<"Accept", "*/*">>, <<"Authorization", "secret123">>,
                             <<"Cookie", "sid=42">>})}

ResponseHeaders ==
  {WithHeaders(EmptyHeader, {<<"Content-Type", "text/plain">>}),
   WithHeaders(EmptyHeader, {<<"Content-Type", "text/plain">>,
                             <<"Authorization", "token9">>})}

StatusCodes == {200, 400}

\* The body streams a request or a transport's response may carry: sound ones
\* of every body, and ones whose Read or Close reports an error.
BodyStreams ==
  {NewReader(b) : b \in Bodies}
    \cup {[NewReader(Payload(MaxBodyLen)) EXCEPT !.readErr = TRUE],
          [NewReader(Payload(MaxBodyLen)) EXCEPT !.closeErr = TRUE]}

ServerRequests == [Header : RequestHeaders, Body : BodyStreams]

ClientRequests == [Header : RequestHeaders, Body : BodyStreams \cup {NilBody}]

(***************************************************************************)
(* Request identifiers (request_id.go)                                     *)
(***************************************************************************)
\* A context: whether it holds a value under requestIDKeyName, and the value.
Background == [ok |-> FALSE, id |-> ""]

WithRequestID(ctx, requestID) == [ok |-> TRUE, id |-> requestID]

GetRequestID(ctx) == [id |-> IF ctx.ok THEN ctx.id ELSE "", ok |-> ctx.ok]

\* http.Header.Get and Set on the X-Request-ID value of a header collection.
Get(v) == IF v = Absent THEN "" ELSE v

Set(v, id) == id

RequestIDAlwaysGenerated(v, generated) == [id |-> generated, called |-> TRUE]

\* if id = r.Header.Get(xRequestIDKey); len(id) == 0 { id = h.generator() }
RequestID(v, generated) ==
  IF Get(v) = ""
    THEN [id |-> generated, called |-> TRUE]
    ELSE [id |-> Get(v), called |-> FALSE]

\* The X-Request-ID values of incoming requests, the identifiers a generator
\* returns, and what the next handler leaves in X-Request-ID of the response.
IncomingIDs == {Absent, "", "req-1", "req-2"}

GeneratedIDs == {"gen-1", "gen-2", ""}

NextResponseIDs == {Absent, "other", "gen-1"}

\* No exchange of the RequestIDHandler is in flight.
NoRequestID ==
  [pc |-> "idle", incoming |-> Absent, header |-> Absent, id |-> "", calls |-> 0,
   ctx |-> Background, seenHeader |-> Absent, seenCtx |-> GetRequestID(Background),
   trailer |-> Absent, wHeader |-> Absent, wroteHeader |-> FALSE]

(***************************************************************************)
(* State                                                                   *)
(***************************************************************************)
(***************************************************************************)
(* healthz                                                                 *)
(***************************************************************************)
\* The number of toggle requests a run of the health checker serves.
MaxToggles == 4

\* What a handler of the health checker wrote to its ResponseWriter.
HealthReply(status, text) == [status |-> status, text |-> text]

\* http.Error(w, http.StatusText(code), code): the text and a line feed.
InternalServerError == HealthReply(500, "Internal Server Error\n")

\* (h *healthz).handleCheck: h.ok is read, never written.
handleCheck(ok) ==
  [ok |-> ok,
   w  |-> IF ~ok THEN InternalServerError ELSE HealthReply(200, "OK")]

\* A toggle that reports the state it found, not the state it leaves.
handleToggleReportsBefore(ok) ==
  [ok |-> ~ok,
   w  |-> HealthReply(200, "status is: " \o (IF ~ok THEN "bad" ELSE "good"))]

\* (h *healthz).handleToggle: h.ok = !h.ok, then the status of the new h.ok.
handleToggle(ok) ==
  LET flipped == ~ok
      status  == IF ~flipped THEN "bad" ELSE "good"
  IN  [ok |-> flipped, w |-> HealthReply(200, "status is: " \o status)]

\* h := &healthz{ok: true}, as RegisterHealthz and HealthzHandler build it;
\* toggles counts the toggle requests served, last names the last handler
\* that ran and w is what it wrote.
NewHealthz ==
  [ok |-> TRUE, toggles |-> 0, last |-> "none", w |-> HealthReply(0, "")]

VARIABLES
  adapter,  \* "server": RequestResponseLogger.Handler; "client": RoundTripLogger
  Level,    \* coreLogger.Level
  Writer,   \* coreLogger.Writer
  Log,      \* coreLogger.Log
  asked,    \* the last request to the level control surface, and the level it met
  ctl,      \* the reply to it
  pc,       \* where the exchange in flight stands
  orig,     \* the request as it entered the logger
  r,        \* the request as it is now
  seen,     \* what the wrapped handler / transport received
  wrote,    \* what the wrapped handler / transport produced
  rw,       \* the httptest.ResponseRecorder of the exchange
  resp,     \* rw.Result() (server) or the transport's response (client)
  w,        \* the real http.ResponseWriter
  ret,      \* what RoundTrip returned to its caller
  out,      \* the messages written to l.Writer during the exchange
  diag,     \* the notes printed on l.Log during the exchange
  rid,      \* the exchange of the RequestIDHandler in flight
  hz        \* the healthz checker, and its last reply

vars ==
  <<adapter, Level, Writer, Log, asked, ctl, pc, orig, r, seen, wrote, rw, resp, w, ret,
    out, diag, rid, hz>>

\* The nil error, and the errors a transport reports.
NoError == "<nil>"

TransportErrors == {"connection refused", "deadline exceeded"}

NoRequest == [Header |-> EmptyHeader, Body |-> NilBody]

NoSeen == [called |-> FALSE, dest |-> "", Header |-> EmptyHeader, body |-> <<>>, err |-> FALSE]

NoWrote == [done |-> FALSE, err |-> FALSE, error |-> NoError, StatusCode |-> 0, Header |-> EmptyHeader, Body |-> <<>>]

NoResponse == [StatusCode |-> 0, Header |-> EmptyHeader, Body |-> NilBody]

\* httptest.NewRecorder()
NewRecorder == [Code |-> 200, HeaderMap |-> EmptyHeader, Body |-> <<>>]

\* A real ResponseWriter nothing was written to: sent is the header set that
\* went out with the status line, headerCalls and writeCalls count the calls
\* of WriteHeader and of Write.
NewWriter == [Header |-> EmptyHeader, wroteHeader |-> FALSE, Code |-> 0,
              sent |-> EmptyHeader, Body |-> <<>>, headerCalls |-> 0, writeCalls |-> 0]

NoReturn == [done |-> FALSE, err |-> FALSE, error |-> NoError, resp |-> NoResponse]

\* No exchange is in flight.
Idle ==
  /\ orig = NoRequest /\ r = NoRequest /\ seen = NoSeen
  /\ wrote = NoWrote /\ rw = NewRecorder /\ resp = NoResponse /\ w = NewWriter
  /\ ret = NoReturn /\ out = <<>> /\ diag = <<>>

\* Logger(level, output) with l.Log left unset or assigned, or the arguments
\* of NewRoundTripLogger(inner, level, out, logger): any level, an output
\* sink or none, a diagnostic logger or none.
Init ==
  /\ adapter \in {"server", "client"}
  /\ Level \in DetailLevels
  /\ Writer \in {NilWriter, "output"}
  /\ Log \in {NilLogger, NewLog("diagnostics", "")}
  /\ asked = NotAsked
  /\ ctl = NoReply
  /\ pc = "new"
  /\ Idle
  /\ rid = NoRequestID
  /\ hz = NewHealthz

(***************************************************************************)
(* coreLogger.initialize                                                   *)
(***************************************************************************)
\* l.initialize(), called by Handler(h) and by NewRoundTripLogger.
Initialize ==
  /\ pc = "new"
  /\ Writer' = initialize(Writer, Log).Writer
  /\ Log' = initialize(Writer, Log).Log
  /\ pc' = "idle"
  /\ UNCHANGED <<hz, rid, adapter, Level, asked, ctl, orig, r, seen, wrote, rw, resp, w, ret, out, diag>>

(***************************************************************************)
(* http.ResponseWriter                                                     *)
(***************************************************************************)
\* The status line goes out with the headers set so far, once.
SendHeader(wr, code) ==
  IF wr.wroteHeader THEN wr
  ELSE [wr EXCEPT !.wroteHeader = TRUE, !.Code = code, !.sent = wr.Header]

\* w.WriteHeader(code): a call after the status line went out changes nothing.
WriteHeader(wr, code) ==
  [SendHeader(wr, code) EXCEPT !.headerCalls = wr.headerCalls + 1]

\* w.Write(b): the status line goes out first, 200 when none was written.
Write(wr, b) ==
  LET w1 == SendHeader(wr, 200)
  IN  [w1 EXCEPT !.Body = w1.Body \o b, !.writeCalls = w1.writeCalls + 1]

\* What a handler does with the writer it is given: sets its headers, writes
\* the status and the body.
HandlerWrites(wr, code, h, b) ==
  Write(WriteHeader([wr EXCEPT !.Header = h], code), b)

\* The same on a ResponseRecorder.
RecorderWrites(code, h, b) == [Code |-> code, HeaderMap |-> h, Body |-> b]

\* rw.Result(): status, a snapshot of the headers, a reader over the body.
Result(rec) ==
  [StatusCode |-> rec.Code, Header |-> rec.HeaderMap, Body |-> NewReader(rec.Body)]

CopyHeadersAfterRender(wr, h) ==
  [wr EXCEPT !.Header = headers(NormalLevel, h).h]

\* for k, v := range resp.Header { w.Header()[k] = v }
CopyHeaders(wr, h) ==
  [wr EXCEPT !.Header = [k \in HeaderNames |-> IF h[k] # Absent THEN h[k] ELSE wr.Header[k]]]

(***************************************************************************)
(* RequestResponseLogger.Handler                                           *)
(***************************************************************************)
responseLoggerRendersFirst(at) ==
  CASE at = "result" -> "logResponse"
    [] at = "logResponse" -> "writeHeader"
    [] at = "writeHeader" -> "write"
    [] at = "write" -> "done"

\* A closure that writes the status and never the body.
responseLoggerSkipsWrite(at) ==
  CASE at = "result" -> "writeHeader"
    [] at = "writeHeader" -> "logResponse"
    [] at = "write" -> "logResponse"
    [] at = "logResponse" -> "done"

\* The closure responseLogger returns, statement after statement: the result
\* is taken and its headers copied, the status written, the body written, the
\* response logged.
responseLogger(at) ==
  CASE at = "result" -> "writeHeader"
    [] at = "writeHeader" -> "write"
    [] at = "write" -> "logResponse"
    [] at = "logResponse" -> "done"

\* The wrapped stage reads the request it is handed.
Receives(req, dest) ==
  [called |-> TRUE, dest |-> dest, Header |-> req.Header,
   body |-> IF req.Body.nil THEN <<>> ELSE ReadAll(req.Body).data,
   err |-> ~req.Body.nil /\ ReadAll(req.Body).err]

HandlerSwitchAlwaysRecords(level) == "logRequest"

\* switch l.Level: case NoneLevel goes straight to the wrapped handler.
HandlerSwitch(level) ==
  IF level = NoneLevel THEN "direct" ELSE "logRequest"

\* A request enters the handler Handler returned.
Handler ==
  /\ adapter = "server" /\ pc = "idle"
  /\ \E req \in ServerRequests :
       /\ orig' = req
       /\ r' = req
  /\ pc' = HandlerSwitch(Level)
  /\ UNCHANGED <<hz, rid, adapter, Level, Writer, Log, asked, ctl, seen, wrote, rw, resp, w, ret, out, diag>>

\* case NoneLevel: h.ServeHTTP(w, r)
ServeDirect ==
  /\ adapter = "server" /\ pc = "direct"
  /\ \E code \in StatusCodes, h \in ResponseHeaders, b \in Bodies :
       /\ w' = HandlerWrites(w, code, h, b)
       /\ wrote' = [done |-> TRUE, err |-> FALSE, error |-> NoError, StatusCode |-> code, Header |-> h, Body |-> b]
  /\ seen' = Receives(r, "w")
  /\ pc' = "done"
  /\ UNCHANGED <<hz, rid, adapter, Level, Writer, Log, asked, ctl, orig, r, rw, resp, ret, out, diag>>

\* r := l.logRequest(r, id); rw, logResponse := l.responseLogger(w, id)
HandlerLogRequest ==
  /\ adapter = "server" /\ pc = "logRequest"
  /\ \E sinkFails \in BOOLEAN :
       LET res == logRequest(Level, r, sinkFails)
       IN  /\ r' = res.r
           /\ out' = out \o res.msgs
           /\ IF Printf(Log, res.notes).panic
                THEN diag' = diag /\ pc' = "panic"
                ELSE diag' = diag \o res.notes /\ pc' = "serve"
  /\ rw' = NewRecorder
  /\ UNCHANGED <<hz, rid, adapter, Level, Writer, Log, asked, ctl, orig, seen, wrote, resp, w, ret>>

\* h.ServeHTTP(rw, r)
ServeHTTP ==
  /\ adapter = "server" /\ pc = "serve"
  /\ \E code \in StatusCodes, h \in ResponseHeaders, b \in Bodies :
       /\ rw' = RecorderWrites(code, h, b)
       /\ wrote' = [done |-> TRUE, err |-> FALSE, error |-> NoError, StatusCode |-> code, Header |-> h, Body |-> b]
  /\ seen' = Receives(r, "rw")
  /\ pc' = "result"
  /\ UNCHANGED <<hz, rid, adapter, Level, Writer, Log, asked, ctl, orig, r, resp, w, ret, out, diag>>

\* The deferred closure of responseLogger, up to the copy of the headers:
\* resp := rw.Result(), its body is read and replaced, the headers are copied.
\* The request is out of scope from here on.
ResponseLoggerCopyHeaders ==
  /\ adapter = "server" /\ pc = "result"
  /\ LET res == Result(rw)
         rd == ReadAll(res.Body)
     IN  /\ resp' = [res EXCEPT !.Body = NewReader(rd.data)]
         /\ w' = CopyHeaders(w, res.Header)
  /\ orig' = NoRequest /\ r' = NoRequest /\ seen' = NoSeen
  /\ pc' = responseLogger(pc)
  /\ UNCHANGED <<hz, rid, adapter, Level, Writer, Log, asked, ctl, wrote, rw, ret, out, diag>>

\* w.WriteHeader(rw.Code)
ResponseLoggerWriteHeader ==
  /\ adapter = "server" /\ pc = "writeHeader"
  /\ w' = WriteHeader(w, rw.Code)
  /\ pc' = responseLogger(pc)
  /\ UNCHANGED <<hz, rid, adapter, Level, Writer, Log, asked, ctl, orig, r, seen, wrote, rw, resp, ret, out, diag>>

\* w.Write(body)
ResponseLoggerWrite ==
  /\ adapter = "server" /\ pc = "write"
  /\ w' = Write(w, resp.Body.data)
  /\ pc' = responseLogger(pc)
  /\ UNCHANGED <<hz, rid, adapter, Level, Writer, Log, asked, ctl, orig, r, seen, wrote, rw, resp, ret, out, diag>>

\* l.logResponse(rw.Result(), id): the cached result, whose body was replaced.
ResponseLoggerLogResponse ==
  /\ adapter = "server" /\ pc = "logResponse"
  /\ \E sinkFails \in BOOLEAN :
       LET res == logResponse(Level, resp, sinkFails)
       IN  /\ resp' = res.resp
           /\ out' = out \o res.msgs
           /\ IF Printf(Log, res.notes).panic
                THEN diag' = diag /\ pc' = "panic"
                ELSE diag' = diag \o res.notes /\ pc' = responseLogger(pc)
  /\ UNCHANGED <<hz, rid, adapter, Level, Writer, Log, asked, ctl, orig, r, seen, wrote, rw, w, ret>>

(***************************************************************************)
(* RoundTripLogger.RoundTrip                                               *)
(***************************************************************************)
RoundTrip ==
  /\ adapter = "client" /\ pc = "idle"
  /\ \E req \in ClientRequests :
       /\ orig' = req
       /\ r' = req
  /\ pc' = "rtLogRequest"
  /\ UNCHANGED <<hz, rid, adapter, Level, Writer, Log, asked, ctl, seen, wrote, rw, resp, w, ret, out, diag>>

\* l.logRequest(r, id)
RoundTripLogRequest ==
  /\ adapter = "client" /\ pc = "rtLogRequest"
  /\ \E sinkFails \in BOOLEAN :
       LET res == logRequest(Level, r, sinkFails)
       IN  /\ r' = res.r
           /\ out' = out \o res.msgs
           /\ IF Printf(Log, res.notes).panic
                THEN diag' = diag /\ pc' = "panic"
                ELSE diag' = diag \o res.notes /\ pc' = "inner"
  /\ UNCHANGED <<hz, rid, adapter, Level, Writer, Log, asked, ctl, orig, seen, wrote, rw, resp, w, ret>>

RoundTripFailedWrapped(e) ==
  [done |-> TRUE, err |-> TRUE, error |-> "round trip failed", resp |-> NoResponse]

\* if err != nil { return nil, err }
RoundTripFailed(e) ==
  [done |-> TRUE, err |-> TRUE, error |-> e, resp |-> NoResponse]

\* resp, err := l.inner.RoundTrip(r), failing: return nil, err
InnerRoundTripFails ==
  /\ adapter = "client" /\ pc = "inner"
  /\ seen' = Receives(r, "transport")
  /\ \E e \in TransportErrors :
       /\ wrote' = [NoWrote EXCEPT !.done = TRUE, !.err = TRUE, !.error = e]
       /\ ret' = RoundTripFailed(e)
  /\ pc' = "done"
  /\ UNCHANGED <<hz, rid, adapter, Level, Writer, Log, asked, ctl, orig, r, rw, resp, w, out, diag>>

\* resp, err := l.inner.RoundTrip(r), answering
InnerRoundTrip ==
  /\ adapter = "client" /\ pc = "inner"
  /\ seen' = Receives(r, "transport")
  /\ \E code \in StatusCodes, h \in ResponseHeaders, b \in BodyStreams :
       /\ resp' = [StatusCode |-> code, Header |-> h, Body |-> b]
       /\ wrote' = [done |-> TRUE, err |-> FALSE, error |-> NoError, StatusCode |-> code, Header |-> h,
                    Body |-> b.data]
  /\ pc' = "rtLogResponse"
  /\ UNCHANGED <<hz, rid, adapter, Level, Writer, Log, asked, ctl, orig, r, rw, w, ret, out, diag>>

\* l.logResponse(resp, id); return resp, nil.  The request is out of scope
\* once RoundTrip has returned.
RoundTripLogResponse ==
  /\ adapter = "client" /\ pc = "rtLogResponse"
  /\ \E sinkFails \in BOOLEAN :
       LET res == logResponse(Level, resp, sinkFails)
       IN  /\ resp' = res.resp
           /\ out' = out \o res.msgs
           /\ IF Printf(Log, res.notes).panic
                THEN diag' = diag /\ ret' = ret /\ pc' = "panic"
                ELSE /\ diag' = diag \o res.notes
                     /\ ret' = [done |-> TRUE, err |-> FALSE, error |-> NoError,
                                resp |-> res.resp]
                     /\ pc' = "done"
  /\ orig' = NoRequest /\ r' = NoRequest /\ seen' = NoSeen
  /\ UNCHANGED <<hz, rid, adapter, Level, Writer, Log, asked, ctl, wrote, rw, w>>

\* The exchange is over; the next one starts from fresh objects.
Finish ==
  /\ pc \in {"done", "panic"}
  /\ pc' = "idle" /\ orig' = NoRequest /\ r' = NoRequest /\ seen' = NoSeen
  /\ wrote' = NoWrote /\ rw' = NewRecorder /\ resp' = NoResponse /\ w' = NewWriter
  /\ ret' = NoReturn /\ out' = <<>> /\ diag' = <<>>
  /\ UNCHANGED <<hz, rid, adapter, Level, Writer, Log, asked, ctl>>

(***************************************************************************)
(* RequestResponseLogger.LevelHandler                                      *)
(***************************************************************************)
\* The ServeMux of LevelHandler: "/set" to handleLevelChange, the rest to
\* handleGetLevel.
LevelHandlerServes(route, method, ct, payload) ==
  LET res == IF route = "/set"
               THEN handleLevelChange(Level, method, ct, payload)
               ELSE handleGetLevel(Level, method)
  IN  /\ adapter = "server"
      /\ Level' = res.Level
      /\ ctl' = res.w
      /\ asked' = [q |-> ControlRequest(route, method, ct, payload), level |-> Level]
      /\ UNCHANGED <<hz, rid, adapter, Writer, Log, pc, orig, r, seen, wrote, rw, resp, w, ret, out, diag>>

\* A request that can change the level arrives, at any point of an exchange.
LevelHandler ==
  \E q \in LevelRequests :
    LevelHandlerServes(q.route, q.method, q.ct, q.payload)

\* Any control request arrives.
ControlSurface ==
  \E q \in ControlRequests :
    LevelHandlerServes(q.route, q.method, q.ct, q.payload)

(***************************************************************************)
(* RequestIDHandler.Handler                                                *)
(***************************************************************************)
\* The handler up to the call of next: the identifier is taken from the
\* request or generated and set on it, the trailer is announced, the context
\* of the request handed on holds the identifier.
RequestIDHandler ==
  /\ rid.pc = "idle"
  /\ \E v \in IncomingIDs, generated \in GeneratedIDs :
       LET res == RequestID(v, generated)
       IN  rid' = [rid EXCEPT
                     !.pc = "next",
                     !.incoming = v,
                     !.id = res.id,
                     !.calls = IF res.called THEN 1 ELSE 0,
                     !.header = IF res.called THEN Set(v, res.id) ELSE v,
                     !.trailer = "X-Request-ID",
                     !.ctx = WithRequestID(Background, res.id)]
  /\ UNCHANGED <<hz, adapter, Level, Writer, Log, asked, ctl, pc, orig, r, seen, wrote, rw,
                 resp, w, ret, out, diag>>

\* next.ServeHTTP(w, r.WithContext(...)): the next handler reads the header
\* and the context, may set X-Request-ID on the response and may write the
\* response header.
RequestIDNext ==
  /\ rid.pc = "next"
  /\ \E v \in NextResponseIDs, wroteHeader \in BOOLEAN :
       rid' = [rid EXCEPT
                 !.pc = "deferred",
                 !.seenHeader = rid.header,
                 !.seenCtx = GetRequestID(rid.ctx),
                 !.wHeader = v,
                 !.wroteHeader = wroteHeader]
  /\ UNCHANGED <<hz, adapter, Level, Writer, Log, asked, ctl, pc, orig, r, seen, wrote, rw,
                 resp, w, ret, out, diag>>

\* defer w.Header().Set(xRequestIDKey, id)
RequestIDDeferred ==
  /\ rid.pc = "deferred"
  /\ rid' = [rid EXCEPT !.pc = "returned", !.wHeader = Set(rid.wHeader, rid.id)]
  /\ UNCHANGED <<hz, adapter, Level, Writer, Log, asked, ctl, pc, orig, r, seen, wrote, rw,
                 resp, w, ret, out, diag>>

\* The exchange is over.
RequestIDFinish ==
  /\ rid.pc = "returned"
  /\ rid' = NoRequestID
  /\ UNCHANGED <<hz, adapter, Level, Writer, Log, asked, ctl, pc, orig, r, seen, wrote, rw,
                 resp, w, ret, out, diag>>

NextRequestID ==
  \/ RequestIDHandler
  \/ RequestIDNext
  \/ RequestIDDeferred
  \/ RequestIDFinish

\* The RequestIDHandler alone.
SpecRequestID == Init /\ [][NextRequestID]_vars

(***************************************************************************)
(* The health checker's routes                                             *)
(***************************************************************************)
\* "/healthz" (RegisterHealthz) or "/" (HealthzHandler): h.handleCheck.
HealthzCheck ==
  /\ hz' = [hz EXCEPT !.ok = handleCheck(hz.ok).ok,
                      !.last = "check",
                      !.w = handleCheck(hz.ok).w]
  /\ UNCHANGED <<rid, adapter, Level, Writer, Log, asked, ctl, pc, orig, r, seen, wrote, rw,
                 resp, w, ret, out, diag>>

\* "/healthz/toggle" (RegisterHealthz) or "/toggle" (HealthzHandler):
\* h.handleToggle.
HealthzToggle ==
  /\ hz.toggles < MaxToggles
  /\ hz' = [hz EXCEPT !.ok = handleToggle(hz.ok).ok,
                      !.toggles = hz.toggles + 1,
                      !.last = "toggle",
                      !.w = handleToggle(hz.ok).w]
  /\ UNCHANGED <<rid, adapter, Level, Writer, Log, asked, ctl, pc, orig, r, seen, wrote, rw,
                 resp, w, ret, out, diag>>

NextHealthz ==
  \/ HealthzCheck
  \/ HealthzToggle

\* The health checker alone.
SpecHealthz == Init /\ [][NextHealthz]_vars

Next ==
  \/ Initialize
  \/ Handler
  \/ ServeDirect
  \/ HandlerLogRequest
  \/ ServeHTTP
  \/ ResponseLoggerCopyHeaders
  \/ ResponseLoggerWriteHeader
  \/ ResponseLoggerWrite
  \/ ResponseLoggerLogResponse
  \/ RoundTrip
  \/ RoundTripLogRequest
  \/ InnerRoundTripFails
  \/ InnerRoundTrip
  \/ RoundTripLogResponse
  \/ Finish
  \/ LevelHandler

Spec == Init /\ [][Next]_vars

\* The level control surface alone, under every control request.
NextControl == Initialize \/ ControlSurface

SpecControl == Init /\ [][NextControl]_vars

(***************************************************************************)
(* Properties                                                              *)
(***************************************************************************)
\* The server exchange went through the recorder and its closure has written
\* the recorded response to the real writer.
Delivered ==
  adapter = "server" /\ pc \in {"logResponse", "done"} /\ seen.dest # "w"

\* C1: once the closure of responseLogger has flushed the recorder, the status,
\* the headers and the body on the real ResponseWriter are exactly those the
\* wrapped handler wrote to the recorder, whether or not the response was
\* rendered.
C1_Transparency ==
  Delivered =>
    /\ w.wroteHeader
    /\ w.Code = rw.Code
    /\ w.sent = rw.HeaderMap
    /\ w.Body = rw.Body

\* C1 witness: a delivered response with a redactable header, rendered with
\* the placeholder, in an exchange whose request failed to render.
C1_Witness ==
  /\ Delivered /\ pc = "done"
  /\ rw.HeaderMap["Authorization"] = "token9"
  /\ rw.Body = Payload(MaxBodyLen)
  /\ Len(out) = 1 /\ out[1].dir = "response"
  /\ <<"Authorization", RedactedValue>> \in out[1].hdrs
  /\ diag = <<"Error executing template">>

\* C2: after a request or a response was rendered, the wrapped handler or
\* transport (and the caller of RoundTrip) reads every header with its
\* original value.
C2_RedactionLeavesHeaders ==
  /\ seen.called => seen.Header = orig.Header
  /\ (ret.done /\ ~ret.err) => ret.resp.Header = wrote.Header

SensitiveNames == {"Authorization", "Cookie"}

\* The request message of the exchange, while the request is in scope.
RequestRendered ==
  orig # NoRequest /\ Len(out) >= 1 /\ out[1].dir = "request"

\* C3: a request message rendered at minimal, normal or verbose shows no
\* sensitive header with its original value, and the placeholder wherever it
\* shows the header; rendered at debug it shows the original value.
C3_RedactedOutput ==
  RequestRendered =>
    \A k \in SensitiveNames :
      orig.Header[k] # Absent =>
        /\ out[1].tmpl \in {"minimal", "normal", "verbose"} =>
             /\ \A line \in out[1].hdrs : line[2] # orig.Header[k]
             /\ out[1].hasHdrs => <<k, RedactedValue>> \in out[1].hdrs
        /\ out[1].tmpl = "debug" => <<k, orig.Header[k]>> \in out[1].hdrs

\* C3 witness: a verbose dump of a request carrying both sensitive headers.
C3_Witness ==
  /\ RequestRendered
  /\ out[1].tmpl = "verbose"
  /\ orig.Header["Authorization"] = "secret123"
  /\ orig.Header["Cookie"] = "sid=42"
  /\ <<"Cookie", RedactedValue>> \in out[1].hdrs
  /\ <<"Accept", "*/*">> \in out[1].hdrs

\* C4: an exchange that finds the level at none writes nothing to the sink;
\* the wrapped handler gets the original request and the real writer, the
\* wrapped transport the original request, and the caller the response as
\* the wrapped stage produced it.
C4_NoneLevelPassThrough ==
  [][/\ (adapter = "server" /\ pc = "idle" /\ pc' # "idle" /\ Level = NoneLevel) =>
          pc' = "direct" /\ r' = orig'
     /\ (pc = "direct" /\ pc' # "direct") =>
          /\ pc' = "done" /\ out' = <<>> /\ diag' = <<>>
          /\ seen'.dest = "w" /\ seen'.Header = orig.Header
          /\ seen'.body = orig.Body.data \/ orig.Body.readErr
          /\ rw' = NewRecorder
          /\ w'.Code = wrote'.StatusCode /\ w'.sent = wrote'.Header
          /\ w'.Body = wrote'.Body
     /\ (adapter = "client" /\ Level = NoneLevel /\ pc # "done") =>
          /\ out' = <<>> /\ diag' = <<>>
          /\ pc' = "inner" => r' = orig
          /\ seen'.called => seen'.Header = orig.Header /\ r' = orig
          /\ pc = "rtLogResponse" =>
               /\ ret'.done /\ ret'.resp = resp
               /\ ret'.resp.StatusCode = wrote.StatusCode
               /\ ret'.resp.Header = wrote.Header
               /\ ret'.resp.Body.pos = 0 /\ ret'.resp.Body.data = wrote.Body]_vars

\* C4 witness: a request with a body served straight through at level none.
C4_Witness ==
  /\ adapter = "server" /\ pc = "done" /\ Level = NoneLevel
  /\ seen.dest = "w" /\ seen.body = Payload(MaxBodyLen)
  /\ seen.Header["Authorization"] = "secret123"
  /\ w.Body = Payload(MaxBodyLen) /\ out = <<>>

\* C5: at a non-none level, a request body that can be read is read by the
\* wrapped handler in full, after the logger has drained and replaced it, and
\* a dump of the request shows it in full.
C5_RequestBodyReplay ==
  (seen.called /\ seen.dest = "rw" /\ ~orig.Body.readErr) =>
    /\ ~seen.err
    /\ seen.body = orig.Body.data
    /\ (Len(out) >= 1 /\ out[1].hasBody) => out[1].body = orig.Body.data

\* The last control request was a PUT on "/set".
AskedSet == asked.q.route = "/set" /\ asked.q.method = "PUT"

\* A part of the Content-Type names application/json, with well-formed
\* parameters or none.
ListsJSON(ct) ==
  \E i \in DOMAIN ct :
    ToLower(ct[i].mt) = "application/json" /\ ct[i].params \in {"none", "valid"}

\* The Content-Type is present and no part of it names application/json.
ListsNoJSON(ct) ==
  Len(ct) > 0 /\ \A i \in DOMAIN ct : ToLower(ct[i].mt) # "application/json"

\* The payload of the last control request parses and names a valid level.
AskedNamesLevel ==
  asked.q.payload.kind = "object" /\ asked.q.payload.level \in LevelNames

\* The valid set request: PUT /set, a JSON content type, a valid level name.
AskedValidSet == AskedSet /\ ListsJSON(asked.q.ct) /\ AskedNamesLevel

\* The level a valid name stands for.
Named == CHOOSE l \in DetailLevels : details[l] = asked.q.payload.level

\* C6: a PUT /set with a JSON content type naming a valid level other than the
\* current one is answered 202 and the level becomes the named one, which
\* stands until the next control request; and every message the logger
\* writes is rendered from the template of the level current at that step,
\* none at all while the level is none.
C6_SetNewLevel ==
  [][/\ (AskedValidSet' /\ Named' # asked'.level) =>
          ctl'.status = 202 /\ Level' = Named'
     /\ (out' # out /\ out' # <<>>) =>
          /\ Level # NoneLevel
          /\ Len(out') = Len(out) + 1
          /\ out'[Len(out')].tmpl = details[Level]
          /\ out'[Len(out')].hasHdrs = (Level >= NormalLevel)]_vars

\* C6 witness: the level was none, a set request naming debug was answered
\* 202, and the request of the exchange in flight was rendered at debug.
C6_Witness ==
  /\ AskedValidSet /\ asked.level = NoneLevel /\ asked.q.payload.level = "debug"
  /\ ctl.status = 202 /\ Level = DebugLevel
  /\ pc = "serve" /\ Len(out) = 1 /\ out[1].tmpl = "debug"

\* C7: a PUT /set (JSON content type) naming the level that is already current
\* is answered 208 and leaves the level unchanged; after any valid set
\* request, repeated or not, the level is the named one.
C7_SetSameLevel ==
  AskedValidSet =>
    /\ Level = Named
    /\ Named = asked.level => ctl.status = 208 /\ ctl.text = ""

\* C7 witness: normal was named while the level was normal.
C7_Witness ==
  /\ AskedValidSet /\ asked.q.payload.level = "normal" /\ asked.level = NormalLevel
  /\ ctl.status = 208 /\ Level = NormalLevel

\* The payload fails to parse, or names a string that is no level name.
AskedInvalidPayload ==
  \/ asked.q.payload.kind # "object"
  \/ asked.q.payload.level \notin LevelNames \cup {NoField}

\* C8: a PUT /set with a JSON content type whose payload fails to parse or
\* names a string other than none, minimal, normal, verbose, debug is
\* answered 422 with the usage hint and leaves the level as it was.
C8_InvalidPayload ==
  (AskedSet /\ ListsJSON(asked.q.ct) /\ AskedInvalidPayload) =>
    /\ ctl.status = 422
    /\ ctl.text = UsageHint
    /\ Level = asked.level

\* C8 witness: the name of a level in upper case, refused at level minimal.
C8_Witness ==
  /\ AskedSet /\ asked.q.payload.level = "DEBUG" /\ asked.level = MinimalLevel
  /\ ctl.status = 422 /\ Level = MinimalLevel

\* C9: a PUT /set whose Content-Type is absent or lists no application/json
\* is answered 415 and leaves the level unchanged, whatever its payload names;
\* one whose comma-separated Content-Type lists application/json, with
\* parameters or without, is not answered 415.
C9_WrongContentType ==
  AskedSet =>
    /\ (Len(asked.q.ct) = 0 \/ ListsNoJSON(asked.q.ct)) =>
         /\ ctl.status = 415
         /\ ctl.accept = "application/json"
         /\ Level = asked.level
    /\ ListsJSON(asked.q.ct) => ctl.status \in {202, 208, 422}

\* C9 witness: no Content-Type, a payload naming debug, the level stays none.
C9_Witness ==
  /\ AskedSet /\ asked.q.ct = <<>> /\ asked.q.payload.level = "debug"
  /\ asked.level = NoneLevel /\ ctl.status = 415 /\ Level = NoneLevel

\* The last control request went to the route of handleGetLevel.
AskedGet == asked.q.route = "/"

\* C10: a GET on the level route is answered 200 with a JSON payload whose
\* level is the lowercase name of the current level; any other method is
\* answered 405 with Allow: GET; the level is unchanged either way.
C10_GetLevel ==
  AskedGet =>
    /\ Level = asked.level
    /\ asked.q.method = "GET" =>
         /\ ctl.status = 200
         /\ ctl.ctype = "application/json"
         /\ ctl.level = details[asked.level]
    /\ asked.q.method # "GET" =>
         /\ ctl.status = 405
         /\ ctl.allow = "GET"
         /\ ctl.level = ""

\* C10 witness: the level read while it is verbose.
C10_Witness ==
  /\ AskedGet /\ asked.q.method = "GET" /\ asked.level = VerboseLevel
  /\ ctl.status = 200 /\ ctl.level = "verbose"

\* C11: when the wrapped transport reports an error, RoundTrip returns that
\* error, the one the transport reported, with no response, and the sink
\* holds no response message: only the request message, if there is one.
C11_TransportFailure ==
  (adapter = "client" /\ wrote.done /\ wrote.err) =>
    /\ ret.done /\ ret.err
    /\ ret.error = wrote.error
    /\ ret.resp = NoResponse
    /\ Len(out) <= 1
    /\ \A i \in DOMAIN out : out[i].dir = "request"

\* C11 witness: the transport refused the connection after the request was
\* rendered at verbose.
C11_Witness ==
  /\ adapter = "client" /\ wrote.err /\ wrote.error = "connection refused"
  /\ ret.error = "connection refused"
  /\ Len(out) = 1 /\ out[1].dir = "request" /\ out[1].tmpl = "verbose"

\* C12: whenever the wrapped transport returned a response, the response
\* RoundTrip returns has a body that is unconsumed and holds the complete
\* original bytes, on every path through logResponse.
C12_ResponseBodyUnconsumed ==
  (adapter = "client" /\ ret.done /\ ~ret.err) =>
    /\ ~ret.resp.Body.nil
    /\ ret.resp.Body.pos = 0
    /\ ret.resp.Body.data = wrote.Body

\* The number of response messages in a sequence of messages.
ResponseMessages(msgs) == Cardinality({i \in DOMAIN msgs : msgs[i].dir = "response"})

RequestMessages(msgs) == Cardinality({i \in DOMAIN msgs : msgs[i].dir = "request"})

\* The step starts the render of the response: it writes a response message,
\* prints a note after the wrapped handler returned, or fails doing so.
RendersResponse ==
  \/ ResponseMessages(out') > ResponseMessages(out)
  \/ wrote.done /\ Len(diag') > Len(diag)
  \/ wrote.done /\ pc' = "panic"

\* C13: in a server exchange that went through the recorder, the status is
\* written to the real writer once the recorded headers are on it and before
\* any body byte, the recorded body after the status, and the render of the
\* response starts only when headers, status and body are all delivered; no
\* response message exists before that.
C13_FlushBeforeRender ==
  [][(adapter = "server" /\ pc \notin {"direct", "done", "panic"}) =>
       /\ w'.Header # w.Header => wrote.done /\ ~w.wroteHeader /\ w.Body = <<>>
       /\ (~w.wroteHeader /\ w'.wroteHeader) =>
            /\ wrote.done
            /\ w.Header = rw.HeaderMap
            /\ w'.sent = rw.HeaderMap /\ w'.Code = rw.Code
            /\ w'.Body = <<>>
            /\ ResponseMessages(out') = 0
       /\ w'.Body # w.Body =>
            /\ w.wroteHeader /\ w.Body = <<>> /\ w'.Body = rw.Body
            /\ ResponseMessages(out') = 0
       /\ RendersResponse =>
            /\ w.wroteHeader /\ w.Code = rw.Code /\ w.sent = rw.HeaderMap
            /\ w.Body = rw.Body
            /\ w' = w]_vars

\* C13 witness: the recorded response, with a body, is on the real writer and
\* its render has produced the response message.
C13_Witness ==
  /\ adapter = "server" /\ pc = "done" /\ wrote.done
  /\ w.wroteHeader /\ w.Code = 400 /\ w.Body = Payload(MaxBodyLen)
  /\ Len(out) = 2 /\ out[2].dir = "response" /\ out[2].code = 400

\* The step is the logger's pass over the request, or over the response.
LogsRequest == pc \in {"logRequest", "rtLogRequest"} /\ pc' # pc

LogsResponse == pc \in {"logResponse", "rtLogResponse"} /\ pc' # pc

\* The step appends exactly one message, of the direction given.
Appends(dir) ==
  /\ Len(out') = Len(out) + 1
  /\ SubSeq(out', 1, Len(out)) = out
  /\ out'[Len(out')].dir = dir

\* C14 as stated: at a non-none level the pass over the request, when it
\* returns, has written exactly one request message, before the wrapped stage
\* is invoked, the pass over the response exactly one response message, and
\* nothing else writes a message.
C14_OneMessagePerDirection ==
  [][/\ (LogsRequest /\ Level # NoneLevel /\ pc' # "panic") =>
          Appends("request") /\ ~seen.called
     /\ (LogsResponse /\ Level # NoneLevel /\ pc' # "panic") =>
          Appends("response") /\ wrote.done
     /\ (~LogsRequest /\ ~LogsResponse) => out' = out \/ out' = <<>>]_vars

\* The step prints one note on the diagnostic logger, or fails printing it.
NotesFault ==
  \/ Len(diag') = Len(diag) + 1 /\ SubSeq(diag', 1, Len(diag)) = diag
  \/ pc' = "panic" /\ diag' = diag

\* C14 amended: at a non-none level the pass over the request writes one
\* request message, before the wrapped stage is invoked, or else notes a fault
\* of its own (body read, body close, render) and writes none; the pass over
\* the response, after the wrapped stage returned, writes one response
\* message or else notes a fault and writes none; at none neither writes or
\* notes anything; no other step writes a message; so an exchange has at most
\* one message per direction, the request message first.
C14_AtMostOneMessagePerDirection ==
  [][/\ (LogsRequest /\ Level # NoneLevel) =>
          /\ ~seen.called /\ ~wrote.done
          /\ \/ Appends("request") /\ diag' = diag /\ pc' # "panic"
             \/ out' = out /\ NotesFault
     /\ (LogsResponse /\ Level # NoneLevel) =>
          /\ wrote.done
          /\ \/ Appends("response") /\ diag' = diag /\ pc' # "panic"
             \/ out' = out /\ NotesFault
     /\ ((LogsRequest \/ LogsResponse) /\ Level = NoneLevel) =>
          out' = out /\ diag' = diag /\ pc' # "panic"
     /\ (~LogsRequest /\ ~LogsResponse) => out' = out \/ out' = <<>>
     /\ RequestMessages(out') <= 1 /\ ResponseMessages(out') <= 1
     /\ \A i, j \in DOMAIN out' :
          (out'[i].dir = "response" /\ out'[j].dir = "request") => j < i]_vars

\* C14 witness: an exchange with its request message and its response
\* message, and one whose request pass noted a fault and wrote only the
\* response message.
C14_Witness ==
  /\ pc = "done" /\ Len(out) = 1 /\ out[1].dir = "response"
  /\ diag = <<"Error reading body">>

\* C15: no fault of the logger stops an exchange: the exchange never ends in a
\* panic, and when it ends the wrapped stage was invoked and the caller holds
\* what the wrapped stage produced.
C15_LoggerNeverFailsRequest ==
  /\ pc # "panic"
  /\ pc = "done" =>
       /\ wrote.done
       /\ adapter = "server" =>
            w.wroteHeader /\ w.Code = wrote.StatusCode /\ w.Body = wrote.Body
       /\ adapter = "client" => ret.done /\ ret.err = wrote.err

\* C16: a response message shows the body never when rendered at minimal or
\* normal, at verbose exactly when the status is 400 or above, always at
\* debug; the body it shows is the body of the response.
C16_ResponseBodyByLevel ==
  \A i \in DOMAIN out :
    out[i].dir = "response" =>
      /\ out[i].tmpl \in {"minimal", "normal"} => ~out[i].hasBody
      /\ out[i].tmpl = "verbose" => (out[i].hasBody <=> out[i].code >= 400)
      /\ out[i].tmpl = "debug" => out[i].hasBody
      /\ out[i].hasBody => out[i].body = wrote.Body

\* C16 witness: a verbose response message of a 400 with its body.
C16_Witness ==
  /\ Len(out) = 2 /\ out[2].dir = "response" /\ out[2].tmpl = "verbose"
  /\ out[2].code = 400 /\ out[2].hasBody /\ out[2].body = Payload(MaxBodyLen)

\* The lowercase spelling of the name of each level, none first.
CanonicalNames == <<"none", "minimal", "normal", "verbose", "debug">>

\* C17: for each level L, LevelText(L) is its lowercase name and
\* TextLevel(LevelText(L)) = L; for each name of a level in any letter case,
\* LevelText(TextLevel(name)) is the lowercase spelling of the name; every
\* other string stands for the none level.
C17_LevelNamingRoundTrip ==
  /\ \A l \in DetailLevels :
       /\ LevelText(l) = CanonicalNames[l + 1]
       /\ TextLevel(LevelText(l)) = l
  /\ TextLevel(LevelText(Level)) = Level
  /\ \A name \in LevelStrings \cup {asked.q.payload.level} :
       IF \E i \in DOMAIN CanonicalNames : CanonicalNames[i] = ToLower(name)
         THEN LevelText(TextLevel(name)) = ToLower(name)
         ELSE TextLevel(name) = NoneLevel

\* C17 witness: the control surface was sent the name of a level in mixed
\* case, which TextLevel resolves, while the level reads back as verbose.
C17_Witness ==
  /\ asked.q.payload.level = "Normal"
  /\ TextLevel(asked.q.payload.level) = NormalLevel
  /\ LevelText(TextLevel(asked.q.payload.level)) = "normal"
  /\ Level = VerboseLevel /\ LevelText(Level) = "verbose"

\* The notes of the missing-template branches.
MissingTemplateNotes ==
  {"Error missing request template", "Error missing response template"}

\* C18: both template tables hold a compiled, non-empty template named after
\* its level for every level but none, and the nil template for none; the
\* level is always a key of both tables and the missing-template branch is
\* never taken.
C18_TemplateTable ==
  /\ \A l \in DetailLevels \ {NoneLevel} :
       /\ l \in DOMAIN requestLevelTemplates /\ l \in DOMAIN responseLevelTemplates
       /\ requestLevelTemplates[l] # NilTemplate
       /\ responseLevelTemplates[l] # NilTemplate
       /\ requestLevelTemplates[l].def # <<>> /\ responseLevelTemplates[l].def # <<>>
       /\ requestLevelTemplates[l].name = CanonicalNames[l + 1]
       /\ responseLevelTemplates[l].name = CanonicalNames[l + 1]
  /\ NoneLevel \in DOMAIN requestLevelTemplates
  /\ NoneLevel \in DOMAIN responseLevelTemplates
  /\ requestLevelTemplates[NoneLevel] = NilTemplate
  /\ responseLevelTemplates[NoneLevel] = NilTemplate
  /\ Level \in DOMAIN requestLevelTemplates /\ Level \in DOMAIN responseLevelTemplates
  /\ \A i \in DOMAIN diag : diag[i] \notin MissingTemplateNotes

\* C18 witness: an exchange rendered in both directions from the templates of
\* debug, the level the control surface had just set.
C18_Witness ==
  /\ Level = DebugLevel /\ ctl.status = 202 /\ pc = "done"
  /\ Len(out) = 2 /\ out[1].tmpl = "debug" /\ out[2].tmpl = "debug"
  /\ diag = <<>>

\* C19: initialization leaves an output sink and a diagnostic logger with a
\* destination; with neither supplied the sink is standard output and the
\* diagnostic logger writes to that same sink; what was supplied stays.
C19_SinkDefaults ==
  [][(pc = "new" /\ pc' # "new") =>
       /\ Writer' # NilWriter
       /\ Log'.set /\ Log'.out # NilWriter
       /\ (Writer = NilWriter /\ Log = NilLogger) =>
            Writer' = Stdout /\ Log'.out = Stdout
       /\ Writer # NilWriter => Writer' = Writer
       /\ Log # NilLogger => Log' = Log]_vars

\* C20: the generator is called exactly when the incoming X-Request-ID is
\* absent or empty, an identifier that came with the request is kept as it
\* is, and the header the next handler sees, the identifier in the context it
\* is given (present there) and the X-Request-ID on the response once the
\* handler has returned are the same string.
C20_RequestID ==
  rid.pc # "idle" =>
    /\ rid.calls = (IF rid.incoming \in {Absent, ""} THEN 1 ELSE 0)
    /\ rid.incoming \notin {Absent, ""} => rid.id = rid.incoming
    /\ rid.header = rid.id
    /\ rid.pc \in {"deferred", "returned"} =>
         /\ rid.seenHeader = rid.id
         /\ rid.seenCtx = [id |-> rid.id, ok |-> TRUE]
    /\ rid.pc = "returned" => rid.wHeader = rid.id

\* C20 witness: a request without identifier got a generated one, which the
\* next handler saw and which replaced what that handler had set on the
\* response.
C20_Witness ==
  /\ rid.pc = "returned" /\ rid.incoming = Absent /\ rid.calls = 1
  /\ rid.id = "gen-2" /\ rid.seenHeader = "gen-2" /\ rid.seenCtx.id = "gen-2"
  /\ rid.wHeader = "gen-2" /\ rid.wroteHeader

(***************************************************************************)
(* C21: the health checker starts healthy; after any sequence of check and *)
(* toggle requests it is healthy exactly when the number of toggles served *)
(* is even (a check never changes the state, a toggle flips it once); a    *)
(* check answers 200 "OK" when healthy and 500 otherwise; a toggle answers *)
(* 200 with the state it leaves, "good" or "bad".                          *)
(***************************************************************************)
C21_HealthzStateMachine ==
  /\ hz.ok = (hz.toggles % 2 = 0)
  /\ hz.last = "check" =>
       hz.w = (IF hz.toggles % 2 = 0
               THEN HealthReply(200, "OK")
               ELSE HealthReply(500, "Internal Server Error\n"))
  /\ hz.last = "toggle" =>
       hz.w = HealthReply(200, IF hz.toggles % 2 = 0
                               THEN "status is: good"
                               ELSE "status is: bad")

\* Three toggles, then a check: unhealthy, answered 500.
C21_Witness ==
  /\ hz.toggles = 3 /\ hz.last = "check" /\ ~hz.ok
  /\ hz.w.status = 500

(***************************************************************************)
(* C24: in every step, a request to /set with a method other than PUT      *)
(* leaves the level as it was and is not answered 202 or 208, whatever its *)
(* content type and payload; and the level changes only in a step that     *)
(* serves a PUT /set and answers it 202.                                   *)
(***************************************************************************)
C24_OnlyPutChangesLevel ==
  [][/\ (asked'.q.route = "/set" /\ asked'.q.method # "PUT") =>
          /\ Level' = Level
          /\ ctl'.status \notin {202, 208}
     /\ Level' # Level =>
          /\ asked'.q.route = "/set" /\ asked'.q.method = "PUT"
          /\ asked'.level = Level
          /\ ctl'.status = 202]_vars

\* A POST /set with a JSON content type naming debug met the level minimal:
\* it is answered with Allow: PUT only, and the level is still minimal.
C24_Witness ==
  /\ asked.q.route = "/set" /\ asked.q.method = "POST"
  /\ ListsJSON(asked.q.ct)
  /\ asked.q.payload = [kind |-> "object", level |-> "debug"]
  /\ asked.level = MinimalLevel /\ Level = MinimalLevel
  /\ ctl.status = 200 /\ ctl.allow = "PUT"

\* The last control request is a PUT /set with a JSON content type whose
\* payload is a JSON object without a level member.
AskedSetWithoutLevel ==
  /\ AskedSet /\ ListsJSON(asked.q.ct)
  /\ asked.q.payload = [kind |-> "object", level |-> NoField]

(***************************************************************************)
(* C25: a PUT /set with a JSON content type whose payload is a JSON object *)
(* without a level member names the current level, whichever it is: it is  *)
(* answered 208 with no body and the level stays.                          *)
(***************************************************************************)
C25_PayloadWithoutLevel ==
  AskedSetWithoutLevel =>
    /\ ctl.status = 208 /\ ctl.text = ""
    /\ Level = asked.level

\* Such a request met the level verbose.
C25_Witness ==
  /\ AskedSetWithoutLevel
  /\ asked.level = VerboseLevel /\ Level = VerboseLevel
  /\ ctl.status = 208

(***************************************************************************)
(* C22: in a server-side exchange interleaved in any way with set requests *)
(* to the level control surface, the real ResponseWriter never gets more   *)
(* than one WriteHeader and one Write, and once the wrapped handler has    *)
(* produced its response and the exchange is over, it has got exactly one  *)
(* of each, carrying the status, headers and body the handler produced.    *)
(***************************************************************************)
C22_DeliveredExactlyOnce ==
  adapter = "server" =>
    /\ w.headerCalls <= 1 /\ w.writeCalls <= 1
    /\ (wrote.done /\ pc \in {"done", "panic"}) =>
         /\ w.headerCalls = 1 /\ w.writeCalls = 1
         /\ w.wroteHeader
         /\ w.Code = wrote.StatusCode
         /\ w.sent = wrote.Header
         /\ w.Body = wrote.Body

\* The exchange entered at a level that logs, the request was rendered, a
\* set request then changed the level to none (202), the closure delivered
\* the recorded response once and rendered nothing.
C22_Witness ==
  /\ adapter = "server" /\ pc = "done" /\ wrote.done /\ Delivered
  /\ AskedSet /\ ctl.status = 202 /\ asked.level # NoneLevel /\ Level = NoneLevel
  /\ Len(out) = 1 /\ out[1].dir = "request" /\ diag = <<>>
  /\ w.writeCalls = 1 /\ w.Body = Payload(MaxBodyLen)

(***************************************************************************)
(* C23: in an exchange whose wrapped handler or transport returned a       *)
(* response and in which the logger met no fault, a request message is in  *)
(* the sink exactly when a response message is, and the two are rendered   *)
(* with the templates of one level, whatever set requests the level        *)
(* control surface served while the exchange was in flight.                *)
(***************************************************************************)
C23_PairedMessages ==
  (pc = "done" /\ wrote.done /\ ~wrote.err /\ diag = <<>>) =>
    /\ RequestMessages(out) = ResponseMessages(out)
    /\ \A i, j \in DOMAIN out : out[i].tmpl = out[j].tmpl

====
